---- MODULE Spec2Model ----
(***************************************************************************)
(* A model of the flv crate: the struct codec (src/src/types.rs), the tag  *)
(* stream writer and reader (src/src/stdio.rs), the metadata decoder, the  *)
(* seek resolver, and the read loop of examples/flv-dump.rs.               *)
(***************************************************************************)
EXTENDS Integers, Sequences, FiniteSets, TLC

VARIABLES
    codec,      \* the last struct-codec conversion: [fn, arg, ret]
    seekq,      \* the last MetaData::seek call: [md, ts, ret]
    out,        \* FlvWriter.writer: everything written so far, as runs of bytes
    wret,       \* the last FlvWriter call: its arguments, its result and the
                \* target as it was before the call
    wcalls,     \* number of FlvWriter calls made
    input,      \* the bytes of the source FlvReader.reader reads from
    pos,        \* the source's cursor: the number of bytes read from it
    rd,         \* the FlvReader call in progress: [fn, arg, len, start, got, intr,
                \* short, eof]; intr counts the interrupted reads, short tells
                \* whether a read returned fewer bytes than asked
    rret,       \* the last FlvReader call that returned, with its result ret
    pc,         \* where flv-dump's main is
    tag,        \* main's tag_header and the position its bytes start at
    index       \* main's index: the number of tags read

vars == <<codec, seekq, out, wret, wcalls, input, pos, rd, rret, pc, tag, index>>

readerVars == <<input, pos, rd, rret, pc, tag, index>>

codecVars == <<codec>>

seekVars == <<seekq>>

writerVars == <<out, wret, wcalls>>

CodecIdle == [fn |-> "idle", arg |-> <<>>, ret |-> <<>>]

SeekIdle == [fn |-> "idle"]

ReaderIdle == [fn |-> "idle"]

NoTag == [start |-> 0, header |-> <<>>]

WriterIdle == [fn |-> "idle"]

\* the parts of the program a specification leaves out stay as constructed
WriterQuiet == out = <<>> /\ wret = WriterIdle /\ wcalls = 0

ReaderQuiet ==
    /\ input = <<>>
    /\ pos = 0
    /\ rd = ReaderIdle
    /\ rret = ReaderIdle
    /\ pc = "off"
    /\ tag = NoTag
    /\ index = 0

(***************************************************************************)
(* Fixed-width integers and byte helpers.                                  *)
(***************************************************************************)
Byte == 0..255

Pow2(k) == 2^k

\* bit k (0 = least significant) of the byte x
Bit(x, k) == (x \div Pow2(k)) % 2

\* x & m on u8
RECURSIVE AndFrom(_, _, _)
AndFrom(x, m, k) ==
    IF k > 7 THEN 0
    ELSE Bit(x, k) * Bit(m, k) * Pow2(k) + AndFrom(x, m, k + 1)

BitAnd(x, m) == AndFrom(x, m, 0)

\* x | m on u8
BitOr(x, m) == x + m - BitAnd(x, m)

\* (x << k) on u8: the bits shifted out of the byte are lost
Shl8(x, k) == (x * Pow2(k)) % 256

\* u32::from_be_bytes / u16::from_be_bytes.  The model's integers are 32-bit
\* signed, so U32FromBe is used on inputs whose first byte is below 128.
U32FromBe(b1, b2, b3, b4) == ((b1 * 256 + b2) * 256 + b3) * 256 + b4

U16FromBe(b1, b2) == b1 * 256 + b2

\* u32::to_be_bytes, for 0 <= n < 2^31
U32ToBe(n) ==
    << (n \div 16777216) % 256, (n \div 65536) % 256, (n \div 256) % 256, n % 256 >>

\* i32::from_be_bytes: two's complement, the first byte carries the sign
I32FromBe(b0, b1, b2, b3) ==
    (IF b0 >= 128 THEN b0 - 256 ELSE b0) * 16777216 + (b1 * 256 + b2) * 256 + b3

\* i32::to_be_bytes (\div and % round towards minus infinity, as an arithmetic
\* shift does)
I32ToBe(n) ==
    << (n \div 16777216) % 256, (n \div 65536) % 256, (n \div 256) % 256, n % 256 >>

Min(a, b) == IF a <= b THEN a ELSE b

Ok(v) == [tag |-> "Ok", val |-> v]

Err(kind, raw) == [tag |-> "Err", kind |-> kind, raw |-> raw]

IsOk(r) == r.tag = "Ok"

\* Option: None and Some(v)
NoneV == [some |-> FALSE]

Some(v) == [some |-> TRUE, val |-> v]

(***************************************************************************)
(* Struct codec: Header (types.rs).                                        *)
(***************************************************************************)
HeaderSIZE == 9

VERSION_1 == 1

SIGNATURE == <<70, 76, 86>>     \* b'F', b'L', b'V'

\* Header::try_from checking the version before the signature
HeaderTryFromVersionFirst(value) ==
    LET data_offset == U32FromBe(value[6], value[7], value[8], value[9])
    IN  IF value[4] # VERSION_1
          THEN Err("HeaderVersion", <<value[4]>>)
        ELSE IF <<value[1], value[2], value[3]>> # SIGNATURE
          THEN Err("HeaderSignature", <<value[1], value[2], value[3]>>)
        ELSE IF BitAnd(250, value[5]) # 0
          THEN Err("HeaderTypeFlagsReserved", <<BitAnd(250, value[5])>>)
        ELSE IF data_offset # HeaderSIZE
          THEN Err("HeaderDataOffset", <<data_offset>>)
        ELSE Ok([version |-> value[4], audio_flag |-> BitAnd(4, value[5]) # 0,
                 video_flag |-> BitAnd(1, value[5]) # 0, data_offset |-> data_offset])

\* Header::try_from checking the data offset before the reserved flag bits
HeaderTryFromOffsetFirst(value) ==
    LET data_offset == U32FromBe(value[6], value[7], value[8], value[9])
    IN  IF <<value[1], value[2], value[3]>> # SIGNATURE
          THEN Err("HeaderSignature", <<value[1], value[2], value[3]>>)
        ELSE IF value[4] # VERSION_1
          THEN Err("HeaderVersion", <<value[4]>>)
        ELSE IF data_offset # HeaderSIZE
          THEN Err("HeaderDataOffset", <<data_offset>>)
        ELSE IF BitAnd(250, value[5]) # 0
          THEN Err("HeaderTypeFlagsReserved", <<BitAnd(250, value[5])>>)
        ELSE Ok([version |-> value[4], audio_flag |-> BitAnd(4, value[5]) # 0,
                 video_flag |-> BitAnd(1, value[5]) # 0, data_offset |-> data_offset])

\* impl TryFrom<&[u8; Header::SIZE]> for Header
HeaderTryFrom(value) ==
    LET f == value[1]
        l == value[2]
        v == value[3]
        version == value[4]
        flag == value[5]
        reserved_flag == BitAnd(250, flag)
        audio_flag == BitAnd(4, flag) # 0
        video_flag == BitAnd(1, flag) # 0
        data_offset == U32FromBe(value[6], value[7], value[8], value[9])
    IN  IF <<f, l, v>> # SIGNATURE
          THEN Err("HeaderSignature", <<f, l, v>>)
        ELSE IF version # VERSION_1
          THEN Err("HeaderVersion", <<version>>)
        ELSE IF reserved_flag # 0
          THEN Err("HeaderTypeFlagsReserved", <<reserved_flag>>)
        ELSE IF data_offset # HeaderSIZE
          THEN Err("HeaderDataOffset", <<data_offset>>)
        ELSE Ok([version |-> version, audio_flag |-> audio_flag,
                 video_flag |-> video_flag, data_offset |-> data_offset])

\* HeaderInto with the two flag masks exchanged
HeaderIntoSwappedFlags(h) ==
    LET flag == BitOr(IF h.audio_flag THEN 1 ELSE 0, IF h.video_flag THEN 4 ELSE 0)
        o == U32ToBe(HeaderSIZE)
    IN  << SIGNATURE[1], SIGNATURE[2], SIGNATURE[3], h.version, flag,
           o[1], o[2], o[3], o[4] >>

\* impl From<Header> for [u8; Header::SIZE]
HeaderInto(h) ==
    LET flag == BitOr(IF h.audio_flag THEN 4 ELSE 0, IF h.video_flag THEN 1 ELSE 0)
        o == U32ToBe(HeaderSIZE)
    IN  << SIGNATURE[1], SIGNATURE[2], SIGNATURE[3], h.version, flag,
           o[1], o[2], o[3], o[4] >>

(***************************************************************************)
(* Struct codec: TagType and TagHeader (types.rs).                         *)
(***************************************************************************)
TagHeaderSIZE == 11

MAX_DATA_SIZE == 16777215

Audio == [kind |-> "Audio", n |-> 0]

Video == [kind |-> "Video", n |-> 0]

ScriptData == [kind |-> "ScriptData", n |-> 0]

Reserved(n) == [kind |-> "Reserved", n |-> n]

\* impl From<TagType> for u8
TagTypeInto(tt) ==
    CASE tt.kind = "Audio" -> 8
      [] tt.kind = "Video" -> 9
      [] tt.kind = "ScriptData" -> 18
      [] tt.kind = "Reserved" -> tt.n

\* the match on the first byte in TagHeader::from
TagTypeFrom(tt) ==
    CASE tt = 8 -> Audio
      [] tt = 9 -> Video
      [] tt = 18 -> ScriptData
      [] OTHER -> Reserved(tt)

\* impl From<&[u8; TagHeader::SIZE]> for TagHeader
TagHeaderFrom(value) ==
    LET tt == value[1]
        s1 == value[2]
        s2 == value[3]
        s3 == value[4]
        t1 == value[5]
        t2 == value[6]
        t3 == value[7]
        t0 == value[8]
    IN  [tag_type |-> TagTypeFrom(tt),
         data_size |-> U32FromBe(0, s1, s2, s3),
         timestamp |-> I32FromBe(t0, t1, t2, t3)]

\* TagHeaderInto with the timestamp written in plain big-endian order
TagHeaderIntoPlainBe(h) ==
    LET tt == TagTypeInto(h.tag_type)
        s == U32ToBe(h.data_size)
        t == I32ToBe(h.timestamp)
    IN  << tt, s[2], s[3], s[4], t[1], t[2], t[3], t[4], 0, 0, 0 >>

\* impl From<TagHeader> for [u8; TagHeader::SIZE]
TagHeaderInto(h) ==
    LET tt == TagTypeInto(h.tag_type)
        s == U32ToBe(h.data_size)
        t == I32ToBe(h.timestamp)
    IN  << tt, s[2], s[3], s[4], t[2], t[3], t[4], t[1], 0, 0, 0 >>

(***************************************************************************)
(* Struct codec: the audio and video sub-headers (types.rs).  An enum      *)
(* value is its discriminant.                                              *)
(***************************************************************************)
\* a SoundFormat with a variant for each of the 16 codes
SoundFormatValuesAll == 0..15

SoundFormatValues == {0, 1, 2, 3, 4, 5, 6, 7, 8, 9, 10, 11, 14, 15}

SoundRateValues == {0, 1, 2, 3}

SoundSizeValues == {0, 1}

SoundTypeValues == {0, 1}

VideoFrameTypeValues == {1, 2, 3, 4, 5}

VideoCodecIdValues == {1, 2, 3, 4, 5, 6, 7}

\* impl TryFrom<u8> for SoundFormat, SoundRate, ..., VideoCodecId: the value
\* when it is a discriminant of the enum, else the error naming it
EnumTryFrom(values, kind, value) ==
    IF value \in values THEN Ok(value) ELSE Err(kind, <<value>>)

\* impl TryFrom<u8> for AudioDataHeader
AudioDataHeaderTryFrom(value) ==
    LET sound_format == EnumTryFrom(SoundFormatValues, "SoundFormat", BitAnd(value, 240) \div 16)
        sound_rate == EnumTryFrom(SoundRateValues, "SoundRate", BitAnd(value, 12) \div 4)
        sound_size == EnumTryFrom(SoundSizeValues, "SoundSize", BitAnd(value, 2) \div 2)
        sound_type == EnumTryFrom(SoundTypeValues, "SoundType", BitAnd(value, 1))
    IN  IF ~IsOk(sound_format) THEN sound_format
        ELSE IF ~IsOk(sound_rate) THEN sound_rate
        ELSE IF ~IsOk(sound_size) THEN sound_size
        ELSE IF ~IsOk(sound_type) THEN sound_type
        ELSE Ok([sound_format |-> sound_format.val, sound_rate |-> sound_rate.val,
                 sound_size |-> sound_size.val, sound_type |-> sound_type.val])

\* the audio byte with sound_size in bit 0 and sound_type in bit 1
AudioDataHeaderIntoSwappedBits(h) ==
    BitOr(BitOr(BitOr(Shl8(h.sound_format, 4), Shl8(h.sound_rate, 2)),
                Shl8(h.sound_type, 1)), h.sound_size)

\* impl From<AudioDataHeader> for u8
AudioDataHeaderInto(h) ==
    BitOr(BitOr(BitOr(Shl8(h.sound_format, 4), Shl8(h.sound_rate, 2)),
                Shl8(h.sound_size, 1)), h.sound_type)

\* impl TryFrom<u8> for VideoDataHeader
VideoDataHeaderTryFrom(value) ==
    LET frame_type == EnumTryFrom(VideoFrameTypeValues, "VideoFrameType", value \div 16)
        codec_id == EnumTryFrom(VideoCodecIdValues, "VideoCodecId", BitAnd(value, 15))
    IN  IF ~IsOk(frame_type) THEN frame_type
        ELSE IF ~IsOk(codec_id) THEN codec_id
        ELSE Ok([frame_type |-> frame_type.val, codec_id |-> codec_id.val])

\* impl From<VideoDataHeader> for u8
VideoDataHeaderInto(h) == BitOr(Shl8(h.frame_type, 4), h.codec_id)

(***************************************************************************)
(* Tag stream writer: FlvWriter (stdio.rs).  A byte slice is a sequence of *)
(* runs [b, n] (n copies of the byte b), so that a payload of 0x00FFFFFF   *)
(* bytes is a value the model can hold; the writer's target is the         *)
(* concatenation of the slices handed to write_all.                        *)
(***************************************************************************)
Run(b, n) == [b |-> b, n |-> n]

\* the slice holding exactly the bytes of the sequence s
Slice(s) == [i \in 1..Len(s) |-> Run(s[i], 1)]

\* [u8]::len
RECURSIVE SliceLen(_)
SliceLen(d) == IF d = <<>> THEN 0 ELSE d[1].n + SliceLen(Tail(d))

\* the bytes of a slice, one by one (for slices short enough to list)
RECURSIVE SliceBytes(_)
SliceBytes(d) ==
    IF d = <<>> THEN <<>>
    ELSE [i \in 1..d[1].n |-> d[1].b] \o SliceBytes(Tail(d))

\* FlvWriter::write_tag up to its writes: the result it returns when every
\* write succeeds, and the slices it hands to write_all, in order
WriteTag(timestamp, tag_type, header, data) ==
    LET data_size == SliceLen(data)
        tag_header == [tag_type |-> tag_type, data_size |-> data_size,
                       timestamp |-> timestamp]
    IN  IF data_size > MAX_DATA_SIZE
          THEN [ret |-> Err("DataSize", <<data_size>>), writes |-> <<>>]
          ELSE [ret |-> Ok(TagHeaderSIZE + 1 + data_size),
                writes |-> << Slice(TagHeaderInto(tag_header)), header, data >>]

\* write_header leaving out the marker
WriteHeaderNoMarker(header) ==
    [ret |-> Ok(9 + 4), writes |-> << Slice(HeaderInto(header)) >>]

\* FlvWriter::write_header up to its writes
WriteHeader(header) ==
    [ret |-> Ok(9 + 4),
     writes |-> << Slice(HeaderInto(header)), Slice(<<0, 0, 0, 0>>) >>]

\* the concatenation of the first k slices of ws
RECURSIVE Concat(_, _)
Concat(ws, k) == IF k = 0 THEN <<>> ELSE Concat(ws, k - 1) \o ws[k]

MaxWrites == 2

\* Perform the writes of a call.  fail = 0: every write_all succeeds; fail = k:
\* the k-th write_all returns an error, which `?` returns as Error::Io, after
\* the earlier slices were written.
Perform(fn, args, call, fail) ==
    /\ wcalls < MaxWrites
    /\ IF wret.fn = "idle" THEN TRUE ELSE wret.ret # Err("Io", <<>>)
    /\ fail <= Len(call.writes)
    /\ out' = out \o Concat(call.writes, IF fail = 0 THEN Len(call.writes) ELSE fail - 1)
    /\ wret' = [fn |-> fn, args |-> args, before |-> out,
                ret |-> IF fail = 0 THEN call.ret ELSE Err("Io", <<>>)]
    /\ wcalls' = wcalls + 1

WriterHeaderSamples ==
    { [version |-> 1, audio_flag |-> a, video_flag |-> TRUE, data_offset |-> 9] :
        a \in BOOLEAN }
    \cup { [version |-> 2, audio_flag |-> TRUE, video_flag |-> TRUE, data_offset |-> 9],
           [version |-> 1, audio_flag |-> TRUE, video_flag |-> FALSE, data_offset |-> 13] }

AudioHeaderSamples ==
    { [sound_format |-> 10, sound_rate |-> 3, sound_size |-> 1, sound_type |-> 1] }

VideoHeaderSamples == { [frame_type |-> 1, codec_id |-> 7] }

PayloadSamples ==
    { <<>>, Slice(<<1, 2>>), << Run(171, MAX_DATA_SIZE - 1) >>,
      << Run(171, MAX_DATA_SIZE) >>, << Run(171, MAX_DATA_SIZE + 1) >> }

WriterTimestampSamples == {0, -1}

\* FlvWriter::write_header
WriteHeaderCall ==
    /\ \E header \in WriterHeaderSamples, fail \in 0..2 :
          Perform("write_header", [header |-> header], WriteHeader(header), fail)
    /\ UNCHANGED <<codecVars, seekVars, readerVars>>

\* FlvWriter::write_metadata: writes nothing and returns 0
WriteMetadataCall ==
    /\ Perform("write_metadata", <<>>, [ret |-> Ok(0), writes |-> <<>>], 0)
    /\ UNCHANGED <<codecVars, seekVars, readerVars>>

\* FlvWriter::write_video_tag
WriteVideoTagCall ==
    /\ \E timestamp \in WriterTimestampSamples, header \in VideoHeaderSamples,
          data \in PayloadSamples, fail \in 0..3 :
          Perform("write_video_tag",
                  [timestamp |-> timestamp, header |-> header, data |-> data],
                  WriteTag(timestamp, Video, Slice(<<VideoDataHeaderInto(header)>>), data),
                  fail)
    /\ UNCHANGED <<codecVars, seekVars, readerVars>>

\* FlvWriter::write_audio_tag
WriteAudioTagCall ==
    /\ \E timestamp \in WriterTimestampSamples, header \in AudioHeaderSamples,
          data \in PayloadSamples, fail \in 0..3 :
          Perform("write_audio_tag",
                  [timestamp |-> timestamp, header |-> header, data |-> data],
                  WriteTag(timestamp, Audio, Slice(<<AudioDataHeaderInto(header)>>), data),
                  fail)
    /\ UNCHANGED <<codecVars, seekVars, readerVars>>

InitWriter == codec = CodecIdle /\ seekq = SeekIdle /\ WriterQuiet /\ ReaderQuiet

NextWriter ==
    WriteHeaderCall \/ WriteMetadataCall \/ WriteVideoTagCall \/ WriteAudioTagCall

SpecWriter == InitWriter /\ [][NextWriter]_vars

(***************************************************************************)
(* Tag stream reader: FlvReader (stdio.rs).  A call that goes through      *)
(* try_read_exact takes one step per read() on the source, whose outcome   *)
(* the source chooses: some bytes, none at the end of the stream, the      *)
(* interrupted-operation error, or another error.                          *)
(***************************************************************************)
OkNone == [tag |-> "OkNone"]

ErrEof == Err("Read::Eof", <<>>)

ErrUnexpectedEof == Err("Io::UnexpectedEof", <<>>)

ErrIo == Err("Io", <<>>)

\* try_read_exact after its loop reporting every short read as Eof
TryReadExactAlwaysEof(len, got) ==
    IF Len(got) < len THEN ErrEof ELSE Ok(got)

\* try_read_exact after its loop: buf holds what is left to fill of len bytes
TryReadExact(len, got) ==
    IF Len(got) < len
      THEN IF got = <<>> THEN ErrEof ELSE ErrUnexpectedEof
      ELSE Ok(got)

\* read_pre_tag_size turning Eof into "no more tags" as read_tag_header does
ReadPreTagSizeEofAsNone(r) ==
    IF IsOk(r) THEN Ok(U32FromBe(r.val[1], r.val[2], r.val[3], r.val[4]))
    ELSE IF r = ErrEof THEN OkNone ELSE r

\* FlvReader::read_header, given what try_read_exact returned
ReadHeader(r) == IF IsOk(r) THEN HeaderTryFrom(r.val) ELSE r

\* FlvReader::read_pre_tag_size
ReadPreTagSize(r) ==
    IF IsOk(r) THEN Ok(U32FromBe(r.val[1], r.val[2], r.val[3], r.val[4])) ELSE r

\* read_tag_header passing every error of try_read_exact on
ReadTagHeaderEofAsError(r) == IF IsOk(r) THEN Ok(TagHeaderFrom(r.val)) ELSE r

\* FlvReader::read_tag_header
ReadTagHeader(r) ==
    IF IsOk(r) THEN Ok(TagHeaderFrom(r.val))
    ELSE IF r = ErrEof THEN OkNone ELSE r

\* FlvReader::read_video_data_header
ReadVideoDataHeader(r) == IF IsOk(r) THEN VideoDataHeaderTryFrom(r.val[1]) ELSE r

\* FlvReader::read_audio_data_header
ReadAudioDataHeader(r) == IF IsOk(r) THEN AudioDataHeaderTryFrom(r.val[1]) ELSE r

\* FlvReader::read_data
ReadData(r) == r

\* read_data allocating one byte less than asked
ReadDataBufferShort(len) == len - 1

\* the buffer read_data allocates and fills: vec![0u8; len]
ReadDataBuffer(len) == len

\* what the call fn returns, given what its try_read_exact returned
Returned(fn, r) ==
    CASE fn = "read_header" -> ReadHeader(r)
      [] fn = "read_pre_tag_size" -> ReadPreTagSize(r)
      [] fn = "read_tag_header" -> ReadTagHeader(r)
      [] fn = "read_video_data_header" -> ReadVideoDataHeader(r)
      [] fn = "read_audio_data_header" -> ReadAudioDataHeader(r)
      [] fn = "read_data" -> ReadData(r)

MaxInterrupts == 2

\* a call enters try_read_exact with a buffer of len bytes
Begin(fn, arg, len) ==
    rd' = [fn |-> fn, arg |-> arg, len |-> len, start |-> pos, got |-> <<>>,
           intr |-> 0, short |-> FALSE, eof |-> FALSE]

Reading == rd.fn # "idle" /\ ~rd.eof /\ Len(rd.got) < rd.len

\* the interrupted-operation error taken as one byte read and dropped
ReadInterruptedSkipsByte ==
    /\ Reading
    /\ rd.intr < MaxInterrupts
    /\ pos < Len(input)
    /\ rd' = [rd EXCEPT !.intr = @ + 1]
    /\ pos' = pos + 1
    /\ UNCHANGED <<input, rret, pc, tag, index>>
    /\ UNCHANGED <<codecVars, seekVars, writerVars>>

\* read() returns Ok(n), n > 0: n bytes fill the front of buf, which moves on
ReadSome ==
    /\ Reading
    /\ \E n \in 1..(rd.len - Len(rd.got)) :
          /\ pos + n <= Len(input)
          /\ rd' = [rd EXCEPT !.got = @ \o SubSeq(input, pos + 1, pos + n),
                              !.short = @ \/ n < rd.len - Len(rd.got)]
          /\ pos' = pos + n
    /\ UNCHANGED <<input, rret, pc, tag, index>>
    /\ UNCHANGED <<codecVars, seekVars, writerVars>>

\* read() returns Ok(0) at the end of the stream: the loop breaks
ReadEof ==
    /\ Reading
    /\ pos = Len(input)
    /\ rd' = [rd EXCEPT !.eof = TRUE]
    /\ UNCHANGED <<input, pos, rret, pc, tag, index>>
    /\ UNCHANGED <<codecVars, seekVars, writerVars>>

\* read() returns Err of kind Interrupted: the loop goes round again
ReadInterrupted ==
    /\ Reading
    /\ rd.intr < MaxInterrupts
    /\ rd' = [rd EXCEPT !.intr = @ + 1]
    /\ UNCHANGED <<input, pos, rret, pc, tag, index>>
    /\ UNCHANGED <<codecVars, seekVars, writerVars>>

\* read() returns any other Err: the call returns Error::Io at once
ReadFails ==
    /\ Reading
    /\ rret' = [fn |-> rd.fn, arg |-> rd.arg, len |-> rd.len, start |-> rd.start, end |-> pos,
                got |-> rd.got, intr |-> rd.intr, short |-> rd.short, ret |-> ErrIo]
    /\ rd' = ReaderIdle
    /\ UNCHANGED <<input, pos, pc, tag, index>>
    /\ UNCHANGED <<codecVars, seekVars, writerVars>>

\* the loop is over (buf is empty, or the stream ended): the call returns
Return ==
    /\ rd.fn # "idle"
    /\ rd.eof \/ Len(rd.got) = rd.len
    /\ rret' = [fn |-> rd.fn, arg |-> rd.arg, len |-> rd.len, start |-> rd.start, end |-> pos,
                got |-> rd.got, intr |-> rd.intr, short |-> rd.short, ret |-> Returned(rd.fn, TryReadExact(rd.len, rd.got))]
    /\ rd' = ReaderIdle
    /\ UNCHANGED <<input, pos, pc, tag, index>>
    /\ UNCHANGED <<codecVars, seekVars, writerVars>>

(***************************************************************************)
(* Metadata decoder: FlvReader::read_metadata (stdio.rs).  A string is the *)
(* sequence of its bytes, a double the 8 bytes of its big-endian encoding. *)
(***************************************************************************)
StrOnMetaData == <<111, 110, 77, 101, 116, 97, 68, 97, 116, 97>>

StrKeyframes == <<107, 101, 121, 102, 114, 97, 109, 101, 115>>

StrFilepositions == <<102, 105, 108, 101, 112, 111, 115, 105, 116, 105, 111, 110, 115>>

StrTimes == <<116, 105, 109, 101, 115>>

\* the keys of the double arm with the MetaData field each is stored in
DoubleKeys ==
    { <<<<100, 117, 114, 97, 116, 105, 111, 110>>, "duration">>,
      <<<<119, 105, 100, 116, 104>>, "width">>,
      <<<<104, 101, 105, 103, 104, 116>>, "height">>,
      <<<<118, 105, 100, 101, 111, 100, 97, 116, 97, 114, 97, 116, 101>>, "video_data_rate">>,
      <<<<102, 114, 97, 109, 101, 114, 97, 116, 101>>, "framerate">>,
      <<<<118, 105, 100, 101, 111, 99, 111, 100, 101, 99, 105, 100>>, "video_codec_id">>,
      <<<<97, 117, 100, 105, 111, 100, 97, 116, 97, 114, 97, 116, 101>>, "audio_date_rate">>,
      <<<<97, 117, 100, 105, 111, 115, 97, 109, 112, 108, 101, 114, 97, 116, 101>>, "audio_sample_rate">>,
      <<<<97, 117, 100, 105, 111, 115, 97, 109, 112, 108, 101, 115, 105, 122, 101>>, "audio_sample_size">>,
      <<<<97, 117, 100, 105, 111, 99, 111, 100, 101, 99, 105, 100>>, "audio_codec_id">>,
      <<<<102, 105, 108, 101, 115, 105, 122, 101>>, "filesize">>,
      <<<<100, 97, 116, 97, 115, 105, 122, 101>>, "data_size">>,
      <<<<118, 105, 100, 101, 111, 115, 105, 122, 101>>, "video_size">>,
      <<<<97, 117, 100, 105, 111, 115, 105, 122, 101>>, "audio_size">>,
      <<<<108, 97, 115, 116, 116, 105, 109, 101, 115, 116, 97, 109, 112>>, "last_timestamp">>,
      <<<<108, 97, 115, 116, 107, 101, 121, 102, 114, 97, 109, 101, 116, 105, 109, 101, 115, 116, 97, 109, 112>>, "last_keyframe_timestamp">>,
      <<<<108, 97, 115, 116, 107, 101, 121, 102, 114, 97, 109, 101, 108, 111, 99, 97, 116, 105, 111, 110>>, "last_keyframe_location">> }

\* the keys of the boolean arm
BoolKeys ==
    { <<<<115, 116, 101, 114, 101, 111>>, "stereo">>,
      <<<<104, 97, 115, 86, 105, 100, 101, 111>>, "has_video">>,
      <<<<104, 97, 115, 75, 101, 121, 102, 114, 97, 109, 101, 115>>, "has_keyframes">>,
      <<<<104, 97, 115, 65, 117, 100, 105, 111>>, "has_audio">>,
      <<<<104, 97, 115, 77, 101, 116, 97, 100, 97, 116, 97>>, "has_metadata">>,
      <<<<99, 97, 110, 83, 101, 101, 107, 84, 111, 69, 110, 100>>, "can_seek_to_end">> }

\* the keys of the string arm
StringKeys ==
    { <<<<109, 97, 106, 111, 114, 95, 98, 114, 97, 110, 100>>, "major_brand">>,
      <<<<109, 105, 110, 111, 114, 95, 118, 101, 114, 115, 105, 111, 110>>, "minor_version">>,
      <<<<99, 111, 109, 112, 97, 116, 105, 98, 108, 101, 95, 98, 114, 97, 110, 100, 115>>, "compatible_brands">>,
      <<<<101, 110, 99, 111, 100, 101, 114>>, "encoder">> }

F64Zero == <<0, 0, 0, 0, 0, 0, 0, 0>>

\* MetaData::default()
MetaDataDefault ==
    [f \in { kf[2] : kf \in DoubleKeys } |-> F64Zero]
      @@ [f \in { kf[2] : kf \in BoolKeys } |-> FALSE]
      @@ [f \in { kf[2] : kf \in StringKeys } |-> <<>>]
      @@ [keyframes |-> NoneV]

\* a match on key.as_str() whose `_` arm stores the value in some field
SetFieldStoresUnknown(md, keys, key, value) ==
    LET field == IF \E kf \in keys : kf[1] = key
                   THEN (CHOOSE kf \in keys : kf[1] = key)[2]
                   ELSE (CHOOSE kf \in keys : TRUE)[2]
    IN  [md EXCEPT ![field] = value]

\* the match on key.as_str() of one arm: the field of a known key is set,
\* any other key changes nothing
SetField(md, keys, key, value) ==
    IF \E kf \in keys : kf[1] = key
      THEN LET field == (CHOOSE kf \in keys : kf[1] = key)[2]
           IN  [md EXCEPT ![field] = value]
      ELSE md

\* The model's integers stop at 2^31 - 1: the casts below give this value for
\* every double that is larger.
IntCap == 2147483646 + 1

\* the 11 exponent bits of a double
F64Exp(b) == (b[1] % 128) * 16 + b[2] \div 16

\* the top 20 of its 52 mantissa bits, under the implicit leading 1
F64MantHi(b) == 1048576 + (b[2] % 16) * 65536 + b[3] * 256 + b[4]

F64IsNaN(b) ==
    F64Exp(b) = 2047 /\ <<b[2] % 16, b[3], b[4], b[5], b[6], b[7], b[8]>> # <<0, 0, 0, 0, 0, 0, 0>>

\* m * 2^sh with the fraction cut off
ScaleTrunc(m, sh) ==
    IF sh >= 0
      THEN IF sh <= 30 /\ m <= IntCap \div Pow2(sh) THEN m * Pow2(sh) ELSE IntCap
      ELSE IF -sh > 30 THEN 0 ELSE m \div Pow2(-sh)

\* `f64 as u64`: NaN and negative values give 0, the fraction is cut off.
\* Exact for the doubles whose low 32 mantissa bits are 0 or whose value is
\* below 2^20.
F64AsU64(b) ==
    IF F64IsNaN(b) \/ b[1] >= 128 \/ F64Exp(b) = 0 THEN 0
    ELSE ScaleTrunc(F64MantHi(b), F64Exp(b) - 1043)

\* `(f64 * 1000.0) as u32`.  Exact for the doubles whose low 32 mantissa bits
\* are 0: the product is then exact.
F64Times1000AsU32(b) ==
    IF F64IsNaN(b) \/ b[1] >= 128 \/ F64Exp(b) = 0 THEN 0
    ELSE ScaleTrunc(F64MantHi(b) * 1000, F64Exp(b) - 1043)

\* Read::read_exact of n bytes at p: the bytes, or UnexpectedEof when fewer
\* are left (the cursor is then at the end)
ReadExact(s, p, n) ==
    IF p + n <= Len(s)
      THEN [ok |-> TRUE, val |-> SubSeq(s, p + 1, p + n), pos |-> p + n]
      ELSE [ok |-> FALSE, err |-> ErrUnexpectedEof, pos |-> Len(s)]

Fail(err, p) == [ok |-> FALSE, err |-> err, pos |-> p]

Done(val, p) == [ok |-> TRUE, val |-> val, pos |-> p]

\* Error::Other(msg)
ErrOther(msg) == Err(msg, <<>>)

\* String::from_utf8 on the strings of the model, which hold ASCII bytes and
\* the byte 0xFF (never part of a UTF-8 encoding)
FromUtf8(bytes) == \A i \in 1..Len(bytes) : bytes[i] < 128

\* `let x = r?; rest(x)`: an error of r is returned at once, else the
\* decoding goes on from r (r is evaluated once)
Then(r, rest(_)) ==
    CHOOSE x \in { IF v.ok THEN rest(v) ELSE v : v \in {r} } : TRUE

\* a 2-byte length, that many bytes, String::from_utf8
ReadString(s, p) ==
    Then(ReadExact(s, p, 2), LAMBDA len :
    Then(ReadExact(s, len.pos, U16FromBe(len.val[1], len.val[2])), LAMBDA key :
    IF FromUtf8(key.val) THEN key ELSE Fail(Err("Utf8", <<>>), key.pos)))

\* FlvReader::read_end_marker
ReadEndMarker(s, p) ==
    Then(ReadExact(s, p, 3), LAMBDA end :
    IF U32FromBe(0, end.val[1], end.val[2], end.val[3]) # 9
      THEN Fail(ErrOther("invalid end of object"), end.pos)
      ELSE Done(<<>>, end.pos))

\* the loops `for _ in 0..len` over the items of filepositions (which = 1,
\* the value cast with `as u64`) and times (which = 2, multiplied by 1000.0
\* and cast with `as u32`): the values pushed after acc
RECURSIVE ReadItems(_, _, _, _, _)
ReadItems(s, p, n, which, acc) ==
    IF n = 0 THEN Done(acc, p)
    ELSE Then(ReadExact(s, p, 1), LAMBDA marker :
         IF marker.val[1] # 0
           THEN Fail(ErrOther(IF which = 1 THEN "invalid filepositions item marker"
                                           ELSE "invalid times item marker"),
                     marker.pos)
           ELSE Then(ReadExact(s, marker.pos, 8), LAMBDA value :
                ReadItems(s, value.pos, n - 1, which,
                          Append(acc, IF which = 1 THEN F64AsU64(value.val)
                                      ELSE F64Times1000AsU32(value.val)))))

\* one array of the keyframes object: its key, the strict-array marker, the
\* 4-byte length and the items
ReadKeyframeArray(s, p, which) ==
    Then(ReadString(s, p), LAMBDA key :
    IF key.val # (IF which = 1 THEN StrFilepositions ELSE StrTimes)
      THEN Fail(ErrOther(IF which = 1 THEN "invalid filepositions key"
                                      ELSE "invalid times key"), key.pos)
      ELSE Then(ReadExact(s, key.pos, 1), LAMBDA marker :
           IF marker.val[1] # 10
             THEN Fail(ErrOther(IF which = 1 THEN "invalid filepositions marker"
                                             ELSE "invalid times marker"),
                       marker.pos)
             ELSE Then(ReadExact(s, marker.pos, 4), LAMBDA len :
                  ReadItems(s, len.pos,
                            U32FromBe(len.val[1], len.val[2], len.val[3], len.val[4]),
                            which, <<>>))))

\* a collect in which the first pair with a key stays
RECURSIVE ZipCollectKeepsFirst(_, _, _, _)
ZipCollectKeepsFirst(times, positions, i, map) ==
    IF i > Len(times) \/ i > Len(positions) THEN map
    ELSE ZipCollectKeepsFirst(times, positions, i + 1,
                    [k \in DOMAIN map \cup {times[i]} |->
                        IF k \in DOMAIN map THEN map[k] ELSE positions[i]])

\* times.drain(..).zip(positions.drain(..)).collect::<BTreeMap<_, _>>(): the
\* pairs are inserted in order, a later pair replacing an earlier one with
\* the same key
RECURSIVE ZipCollect(_, _, _, _)
ZipCollect(times, positions, i, map) ==
    IF i > Len(times) \/ i > Len(positions) THEN map
    ELSE ZipCollect(times, positions, i + 1,
                    [k \in DOMAIN map \cup {times[i]} |->
                        IF k = times[i] THEN positions[i] ELSE map[k]])

EmptyMap == [k \in {} |-> 0]

\* the arm `3 if key == "keyframes"`: the keyframes index
ReadKeyframes(s, p) ==
    Then(ReadKeyframeArray(s, p, 1), LAMBDA positions :
    Then(ReadKeyframeArray(s, positions.pos, 2), LAMBDA times :
    Then(ReadEndMarker(s, times.pos), LAMBDA end :
    Done(ZipCollect(times.val, positions.val, 1, EmptyMap), end.pos))))

\* a `match marker` whose last arm skips the entry and goes on
ReadValueSkipsUnknown(s, p, md, key, marker) ==
    CASE marker = 0 ->
           Then(ReadExact(s, p, 8), LAMBDA value :
           Done(SetField(md, DoubleKeys, key, value.val), value.pos))
      [] marker = 1 ->
           Then(ReadExact(s, p, 1), LAMBDA value :
           Done(SetField(md, BoolKeys, key, value.val[1] # 0), value.pos))
      [] marker = 2 ->
           Then(ReadString(s, p), LAMBDA value :
           Done(SetField(md, StringKeys, key, value.val), value.pos))
      [] marker = 3 /\ key = StrKeyframes ->
           Then(ReadKeyframes(s, p), LAMBDA map :
           Done([md EXCEPT !.keyframes = Some(map.val)], map.pos))
      [] OTHER -> Done(md, p)

\* the value of one entry, by its marker: the metadata after the entry
ReadValue(s, p, md, key, marker) ==
    CASE marker = 0 ->
           Then(ReadExact(s, p, 8), LAMBDA value :
           Done(SetField(md, DoubleKeys, key, value.val), value.pos))
      [] marker = 1 ->
           Then(ReadExact(s, p, 1), LAMBDA value :
           Done(SetField(md, BoolKeys, key, value.val[1] # 0), value.pos))
      [] marker = 2 ->
           Then(ReadString(s, p), LAMBDA value :
           Done(SetField(md, StringKeys, key, value.val), value.pos))
      [] marker = 3 /\ key = StrKeyframes ->
           Then(ReadKeyframes(s, p), LAMBDA map :
           Done([md EXCEPT !.keyframes = Some(map.val)], map.pos))
      [] OTHER -> Fail(Err("Unimplemented", <<marker>>), p)

\* the loop `for _ in 0..array_len` over the entries: n entries are read
RECURSIVE ReadEntries(_, _, _, _)
ReadEntries(s, p, n, md) ==
    IF n = 0 THEN Done(md, p)
    ELSE Then(ReadString(s, p), LAMBDA key :
         Then(ReadExact(s, key.pos, 1), LAMBDA marker :
         Then(ReadValue(s, marker.pos, md, key.val, marker.val[1]), LAMBDA value :
         ReadEntries(s, value.pos, n - 1, value.val))))

\* FlvReader::read_metadata with the cursor at p: [ok, val or err, pos]
ReadMetadata(s, p) ==
    Then(ReadExact(s, p, 1), LAMBDA marker :
    IF marker.val[1] # 2 THEN Fail(ErrOther("marker error"), marker.pos)
    ELSE Then(ReadString(s, marker.pos), LAMBDA name :
         IF name.val # StrOnMetaData
           THEN Fail(ErrOther("invalid onMetaData"), name.pos)
           ELSE Then(ReadExact(s, name.pos, 1), LAMBDA marker2 :
                IF marker2.val[1] # 8 THEN Fail(ErrOther("marker error"), marker2.pos)
                ELSE Then(ReadExact(s, marker2.pos, 4), LAMBDA array_len :
                     Then(ReadEntries(s, array_len.pos,
                                      U32FromBe(array_len.val[1], array_len.val[2],
                                                array_len.val[3], array_len.val[4]),
                                      MetaDataDefault), LAMBDA md :
                     Then(ReadEndMarker(s, md.pos), LAMBDA end :
                     Done(md.val, end.pos)))))))

\* a call of read_metadata, which reads through Read::read_exact: the
\* result, and the cursor where the decoder stopped
ReadMetadataCall ==
    /\ pc = "call_read_metadata"
    /\ LET r == ReadMetadata(input, pos)
       IN  \E v \in {r} :
             /\ rret' = [fn |-> "read_metadata", arg |-> 0, len |-> 0,
                         start |-> pos, end |-> v.pos, got |-> <<>>, intr |-> 0,
                         short |-> FALSE,
                         ret |-> IF v.ok THEN Ok(v.val) ELSE v.err]
             /\ pos' = v.pos
    /\ pc' = "read_metadata"
    /\ UNCHANGED <<input, rd, tag, index>>
    /\ UNCHANGED <<codecVars, seekVars, writerVars>>

(***************************************************************************)
(* The read loop of flv-dump (examples/flv-dump.rs, main), which drives    *)
(* the reader: one action per call it makes, taken when the call before    *)
(* has returned.                                                           *)
(***************************************************************************)
Returns(fn) == pc = fn /\ rd.fn = "idle"

\* reader.read_header()?
MainStart ==
    /\ pc = "start"
    /\ Begin("read_header", 0, HeaderSIZE)
    /\ pc' = "read_header"
    /\ UNCHANGED <<input, pos, rret, tag, index>>
    /\ UNCHANGED <<codecVars, seekVars, writerVars>>

\* while let Ok(pre_tag_size) = reader.read_pre_tag_size(), first time round
MainHeader ==
    /\ Returns("read_header")
    /\ \/ /\ ~IsOk(rret.ret)
          /\ pc' = "exit_err"
          /\ UNCHANGED rd
       \/ /\ IsOk(rret.ret)
          /\ Begin("read_pre_tag_size", 0, 4)
          /\ pc' = "read_pre_tag_size"
    /\ UNCHANGED <<input, pos, rret, tag, index>>
    /\ UNCHANGED <<codecVars, seekVars, writerVars>>

\* match reader.read_tag_header()
MainPreTagSize ==
    /\ Returns("read_pre_tag_size")
    /\ \/ /\ ~IsOk(rret.ret)
          /\ pc' = "exit_ok"
          /\ UNCHANGED rd
       \/ /\ IsOk(rret.ret)
          /\ Begin("read_tag_header", 0, TagHeaderSIZE)
          /\ pc' = "read_tag_header"
    /\ UNCHANGED <<input, pos, rret, tag, index>>
    /\ UNCHANGED <<codecVars, seekVars, writerVars>>

\* the arms of the match on read_tag_header's result and on the tag type
MainTagHeader ==
    /\ Returns("read_tag_header")
    /\ \/ /\ rret.ret = OkNone
          /\ pc' = "exit_ok"
          /\ UNCHANGED <<rd, tag, index>>
       \/ /\ rret.ret.tag = "Err"
          /\ pc' = "exit_ok"
          /\ UNCHANGED <<rd, tag, index>>
       \/ /\ IsOk(rret.ret)
          /\ rret.ret.val.tag_type = Audio
          /\ tag' = [start |-> rret.start, header |-> rret.ret.val]
          /\ Begin("read_audio_data_header", 0, 1)
          /\ pc' = "read_audio_data_header"
          /\ UNCHANGED index
       \/ /\ IsOk(rret.ret)
          /\ rret.ret.val.tag_type = Video
          /\ tag' = [start |-> rret.start, header |-> rret.ret.val]
          /\ Begin("read_video_data_header", 0, 1)
          /\ pc' = "read_video_data_header"
          /\ UNCHANGED index
       \/ /\ IsOk(rret.ret)
          /\ rret.ret.val.tag_type = ScriptData
          /\ tag' = [start |-> rret.start, header |-> rret.ret.val]
          /\ pc' = "call_read_metadata"
          /\ UNCHANGED <<rd, index>>
       \/ /\ IsOk(rret.ret)
          /\ rret.ret.val.tag_type.kind = "Reserved"
          /\ tag' = [start |-> rret.start, header |-> rret.ret.val]
          /\ index' = index + 1
          /\ Begin("read_pre_tag_size", 0, 4)
          /\ pc' = "read_pre_tag_size"
    /\ UNCHANGED <<input, pos, rret>>
    /\ UNCHANGED <<codecVars, seekVars, writerVars>>

\* reader.read_data(tag_header.data_size as usize - 1)?  The subtraction
\* overflows when data_size is 0: the program panics, or (overflow checks off)
\* asks for a buffer of usize::MAX bytes and is aborted.
MainSubHeader ==
    /\ Returns("read_audio_data_header") \/ Returns("read_video_data_header")
    /\ \/ /\ ~IsOk(rret.ret)
          /\ pc' = "exit_err"
          /\ UNCHANGED rd
       \/ /\ IsOk(rret.ret)
          /\ tag.header.data_size = 0
          /\ pc' = "panic"
          /\ UNCHANGED rd
       \/ /\ IsOk(rret.ret)
          /\ tag.header.data_size > 0
          /\ Begin("read_data", tag.header.data_size - 1,
                   ReadDataBuffer(tag.header.data_size - 1))
          /\ pc' = "read_data"
    /\ UNCHANGED <<input, pos, rret, tag, index>>
    /\ UNCHANGED <<codecVars, seekVars, writerVars>>

\* let metadata = reader.read_metadata()?
MainMetadata ==
    /\ Returns("read_metadata")
    /\ \/ /\ ~IsOk(rret.ret)
          /\ pc' = "exit_err"
          /\ UNCHANGED <<rd, index>>
       \/ /\ IsOk(rret.ret)
          /\ index' = index + 1
          /\ Begin("read_pre_tag_size", 0, 4)
          /\ pc' = "read_pre_tag_size"
    /\ UNCHANGED <<input, pos, rret, tag>>
    /\ UNCHANGED <<codecVars, seekVars, writerVars>>

\* index += 1, and round the loop again
MainData ==
    /\ Returns("read_data")
    /\ \/ /\ ~IsOk(rret.ret)
          /\ pc' = "exit_err"
          /\ UNCHANGED <<rd, index>>
       \/ /\ IsOk(rret.ret)
          /\ index' = index + 1
          /\ Begin("read_pre_tag_size", 0, 4)
          /\ pc' = "read_pre_tag_size"
    /\ UNCHANGED <<input, pos, rret, tag>>
    /\ UNCHANGED <<codecVars, seekVars, writerVars>>

\* a caller whose loop ended on Ok(None) calls read_tag_header once more
FurtherReadTagHeader ==
    /\ pc \in {"exit_ok", "further"}
    /\ rd.fn = "idle"
    /\ rret.fn = "read_tag_header"
    /\ rret.ret = OkNone
    /\ Begin("read_tag_header", 0, TagHeaderSIZE)
    /\ pc' = "further"
    /\ UNCHANGED <<input, pos, rret, tag, index>>
    /\ UNCHANGED <<codecVars, seekVars, writerVars>>

(***************************************************************************)
(* The streams the reader is run on: well-formed streams with payloads of  *)
(* every length up to MaxPayload, every prefix of them (a stream cut at    *)
(* any byte), and streams with a bad header, a bad sub-header, a reserved  *)
(* tag, a data_size of 0 and a script tag.                                 *)
(***************************************************************************)
MaxPayload == 2

Prefixes(s) == { SubSeq(s, 1, k) : k \in 0..Len(s) }

FileHeader == HeaderInto([version |-> 1, audio_flag |-> TRUE, video_flag |-> TRUE,
                          data_offset |-> 9])

\* a tag as the format lays it out: data_size counts the sub-header byte and
\* the payload
TagBytes(tag_type, timestamp, sub, payload) ==
    TagHeaderInto([tag_type |-> tag_type, data_size |-> 1 + Len(payload),
                   timestamp |-> timestamp]) \o <<sub>> \o payload

PayloadOf(k) == [i \in 1..k |-> 16 + i]

WellFormed(k) ==
    FileHeader \o <<0, 0, 0, 0>>
      \o TagBytes(Audio, 0, 175, PayloadOf(k)) \o U32ToBe(TagHeaderSIZE + 1 + k)
      \o TagBytes(Video, 40, 23, <<>>) \o U32ToBe(TagHeaderSIZE + 1)

\* a script tag, and the metadata payload with no entries
ScriptTag(payload) ==
    TagHeaderInto([tag_type |-> ScriptData, data_size |-> Len(payload),
                   timestamp |-> 0]) \o payload

EmptyMetaData ==
    <<2, 0, 10>> \o StrOnMetaData \o <<8, 0, 0, 0, 0>> \o <<0, 0, 9>>

WellFormedStreams == { WellFormed(k) : k \in 0..MaxPayload }

OddStreams ==
    { <<70, 76, 87, 1, 5, 0, 0, 0, 9>> \o <<0, 0, 0, 0>>,
      FileHeader \o <<0, 0, 0, 0>> \o TagBytes(Video, 0, 7, <<1>>),
      FileHeader \o <<0, 0, 0, 0>> \o TagBytes(Audio, 0, 207, <<1>>),
      FileHeader \o <<0, 0, 0, 0>>
        \o TagHeaderInto([tag_type |-> Reserved(5), data_size |-> 0, timestamp |-> 0])
        \o U32ToBe(TagHeaderSIZE)
        \o TagHeaderInto([tag_type |-> Audio, data_size |-> 0, timestamp |-> 0])
        \o <<175>>,
      FileHeader \o <<0, 0, 0, 0>> \o ScriptTag(EmptyMetaData)
        \o U32ToBe(TagHeaderSIZE + Len(EmptyMetaData)),
      FileHeader \o <<0, 0, 0, 0>> \o ScriptTag(<<3>>) }

InputSamples ==
    UNION { Prefixes(WellFormed(k)) : k \in 0..MaxPayload } \cup OddStreams

InitReader ==
    /\ codec = CodecIdle /\ seekq = SeekIdle /\ WriterQuiet
    /\ input \in InputSamples
    /\ pos = 0
    /\ rd = ReaderIdle
    /\ rret = ReaderIdle
    /\ pc = "start"
    /\ tag = NoTag
    /\ index = 0

NextReader ==
    \/ MainStart \/ MainHeader \/ MainPreTagSize \/ MainTagHeader
    \/ MainSubHeader \/ MainData \/ ReadMetadataCall \/ MainMetadata
    \/ FurtherReadTagHeader
    \/ ReadSome \/ ReadEof \/ ReadInterrupted \/ ReadFails \/ Return

SpecReader == InitReader /\ [][NextReader]_vars

\* The loop is sequential code over a source whose read() returns: a step
\* that can be taken is taken.  (The source interrupts a call at most
\* MaxInterrupts times.)
SpecReaderFair == SpecReader /\ WF_vars(NextReader)

(***************************************************************************)
(* Writing, then reading back.  A caller writes a stream with an FlvWriter *)
(* over a byte vector, putting after each tag the pre-tag-size marker that *)
(* FlvWriter leaves to it, and then runs the reading loop over the bytes   *)
(* written.  The source is the byte vector: a read hands over all the      *)
(* bytes asked for that are left, and never fails.  No script tag is ever  *)
(* read back: write_metadata writes nothing.                               *)
(***************************************************************************)
MaxStream == 48

\* the caller writes the value returned by the last tag write as the 4-byte
\* pre-tag-size marker
WritePreTagSize ==
    /\ pc = "off"
    /\ wret.fn \in {"write_audio_tag", "write_video_tag"}
    /\ IsOk(wret.ret)
    /\ out' = out \o Slice(U32ToBe(wret.ret.val))
    /\ wret' = [fn |-> "pre_tag_size", args |-> <<>>, before |-> out,
                ret |-> Ok(4), tag_write |-> wret]
    /\ UNCHANGED wcalls
    /\ UNCHANGED <<codecVars, seekVars, readerVars>>

\* FlvReader::new over the bytes written, and the start of the reading loop
OpenReader ==
    /\ pc = "off"
    /\ wret.fn # "idle"
    /\ SliceLen(out) <= MaxStream
    /\ input' = SliceBytes(out)
    /\ pos' = 0
    /\ pc' = "start"
    /\ UNCHANGED <<rd, rret, tag, index>>
    /\ UNCHANGED <<codecVars, seekVars, writerVars>>

\* read() on the byte vector: min(buf.len(), bytes left) bytes at once
ReadCursor ==
    /\ Reading
    /\ pos < Len(input)
    /\ LET n == Min(rd.len - Len(rd.got), Len(input) - pos)
       IN  /\ rd' = [rd EXCEPT !.got = @ \o SubSeq(input, pos + 1, pos + n),
                               !.short = @ \/ n < rd.len - Len(rd.got)]
           /\ pos' = pos + n
    /\ UNCHANGED <<input, rret, pc, tag, index>>
    /\ UNCHANGED <<codecVars, seekVars, writerVars>>

InitPipe == codec = CodecIdle /\ seekq = SeekIdle /\ WriterQuiet /\ ReaderQuiet

NextPipe ==
    \/ pc = "off" /\ WriteHeaderCall
    \/ pc = "off" /\ WriteMetadataCall
    \/ pc = "off" /\ WriteVideoTagCall
    \/ pc = "off" /\ WriteAudioTagCall
    \/ WritePreTagSize
    \/ OpenReader
    \/ MainStart \/ MainHeader \/ MainPreTagSize \/ MainTagHeader
    \/ MainSubHeader \/ MainData
    \/ ReadCursor \/ ReadEof \/ Return

SpecPipe == InitPipe /\ [][NextPipe]_vars

(***************************************************************************)
(* The onMetaData payloads the decoder is run on.  An entry sample is the  *)
(* bytes of one entry with the field it sets ("" for none) and the value.  *)
(***************************************************************************)
MaxEntries == 2

\* a 2-byte length and the bytes of the string
LenPrefixed(str) == <<Len(str) \div 256, Len(str) % 256>> \o str

F64OnePointFive == <<63, 248, 0, 0, 0, 0, 0, 0>>

F64One == <<63, 240, 0, 0, 0, 0, 0, 0>>

F64Two == <<64, 0, 0, 0, 0, 0, 0, 0>>

F64FiveHundred == <<64, 127, 64, 0, 0, 0, 0, 0>>

\* a strict array of doubles, each with its type marker 0
RECURSIVE DoubleItems(_)
DoubleItems(ds) == IF ds = <<>> THEN <<>> ELSE <<0>> \o ds[1] \o DoubleItems(Tail(ds))

StrictArray(ds) == <<10>> \o U32ToBe(Len(ds)) \o DoubleItems(ds)

KeyframesObject(positions, times) ==
    LenPrefixed(StrFilepositions) \o StrictArray(positions)
      \o LenPrefixed(StrTimes) \o StrictArray(times) \o <<0, 0, 9>>

EntryDuration ==
    [bytes |-> LenPrefixed(<<100, 117, 114, 97, 116, 105, 111, 110>>) \o <<0>> \o F64OnePointFive,
     field |-> "duration", value |-> F64OnePointFive]

EntryStereo ==
    [bytes |-> LenPrefixed(<<115, 116, 101, 114, 101, 111>>) \o <<1, 1>>,
     field |-> "stereo", value |-> TRUE]

EntryEncoder ==
    [bytes |-> LenPrefixed(<<101, 110, 99, 111, 100, 101, 114>>) \o <<2>> \o LenPrefixed(<<76, 118>>),
     field |-> "encoder", value |-> <<76, 118>>]

EntryUnknown ==
    [bytes |-> LenPrefixed(<<120>>) \o <<0>> \o F64Two, field |-> "", value |-> 0]

EntryKeyframes ==
    [bytes |-> LenPrefixed(StrKeyframes) \o <<3>>
                 \o KeyframesObject(<<F64FiveHundred, F64Two>>, <<F64One, F64OnePointFive>>),
     field |-> "keyframes", value |-> Some((1000 :> 500) @@ (1500 :> 2))]

\* an entry with the marker 5 (null), which the decoder has no arm for
EntryNull == [bytes |-> LenPrefixed(<<110>>) \o <<5>>, field |-> "", value |-> 0]

\* an entry with the marker 3 (object) and a key other than "keyframes"
EntryObject == [bytes |-> LenPrefixed(<<111>>) \o <<3>>, field |-> "", value |-> 0]

\* the entry samples by number; those the decoder has an arm for come first
EntryOf(i) ==
    CASE i = 1 -> EntryDuration
      [] i = 2 -> EntryStereo
      [] i = 3 -> EntryEncoder
      [] i = 4 -> EntryUnknown
      [] i = 5 -> EntryKeyframes
      [] i = 6 -> EntryNull
      [] i = 7 -> EntryObject

WellFormedEntries == 1..5

AllEntries == 1..7

SeqsUpTo(S, n) == UNION { [1..k -> S] : k \in 0..n }

RECURSIVE EntryBytes(_)
EntryBytes(es) ==
    IF es = <<>> THEN <<>> ELSE EntryOf(es[1]).bytes \o EntryBytes(Tail(es))

\* the payload with the entry count `count` and the entries numbered es
MetaPayload(count, es) ==
    <<2>> \o LenPrefixed(StrOnMetaData) \o <<8>> \o U32ToBe(count)
      \o EntryBytes(es) \o <<0, 0, 9>>

\* the MetaData the entries es describe
RECURSIVE Described(_, _)
Described(es, md) ==
    IF es = <<>> THEN md
    ELSE Described(Tail(es),
                   IF EntryOf(es[1]).field = "" THEN md
                   ELSE [md EXCEPT ![EntryOf(es[1]).field] = EntryOf(es[1]).value])

\* the doubles of the keyframe arrays by number, with the milliseconds a
\* time of that value stands for and the offset a fileposition of that value
\* stands for
DoubleOf(i) == <<F64One, F64OnePointFive, F64Two, F64FiveHundred>>[i]

MillisOf(i) == <<1000, 1500, 2000, 500000>>[i]

OffsetOf(i) == <<1, 1, 2, 500>>[i]

MaxItems == 2

\* a payload whose only entry is a keyframes object with the filepositions
\* numbered ps and the times numbered ts
KeyframesPayload(ps, ts) ==
    <<2>> \o LenPrefixed(StrOnMetaData) \o <<8>> \o U32ToBe(1)
      \o LenPrefixed(StrKeyframes) \o <<3>>
      \o KeyframesObject([i \in 1..Len(ps) |-> DoubleOf(ps[i])],
                         [i \in 1..Len(ts) |-> DoubleOf(ts[i])])
      \o <<0, 0, 9>>

KeyframesSamples ==
    { KeyframesPayload(ps, ts) :
        ps \in SeqsUpTo(1..4, MaxItems), ts \in SeqsUpTo(1..4, MaxItems) }

MetaSamples ==
    KeyframesSamples \cup
    { MetaPayload(count, es) :
        count \in 0..(MaxEntries + 1),
        es \in SeqsUpTo(AllEntries, MaxEntries) }
    \cup Prefixes(MetaPayload(2, <<3, 5>>))
    \cup { MetaPayload(3, <<1, 2, 3>>), MetaPayload(4, <<1, 4, 2, 3>>) }
    \cup { <<2>> \o LenPrefixed(<<111, 110, 255>>) \o <<8, 0, 0, 0, 0, 0, 0, 9>>,
           <<2>> \o LenPrefixed(StrKeyframes) \o <<8, 0, 0, 0, 0, 0, 0, 9>>,
           <<3>> \o LenPrefixed(StrOnMetaData) \o <<8, 0, 0, 0, 0, 0, 0, 9>>,
           <<2>> \o LenPrefixed(StrOnMetaData) \o <<3, 0, 0, 0, 0, 0, 0, 9>>,
           MetaPayload(0, <<>>) \o <<0, 0, 0, 30>> }

InitMeta ==
    /\ codec = CodecIdle /\ seekq = SeekIdle /\ WriterQuiet
    /\ input \in MetaSamples
    /\ pos = 0
    /\ rd = ReaderIdle
    /\ rret = ReaderIdle
    /\ pc = "call_read_metadata"
    /\ tag = NoTag
    /\ index = 0

NextMeta == ReadMetadataCall

SpecMeta == InitMeta /\ [][NextMeta]_vars

(***************************************************************************)
(* The codec as a state machine: one conversion per step, on inputs drawn  *)
(* from the sample sets below.                                             *)
(***************************************************************************)
I32Min == -2147483647 - 1

HeaderSamples ==
    [version : {0, 1, 2, 255}, audio_flag : BOOLEAN, video_flag : BOOLEAN,
     data_offset : {0, 9, 13, 16777216}]

HeaderByteSamples ==
    { <<f, l, v, ver, flag, d1, 0, d3, d4>> :
        f \in {70, 102}, l \in {76, 0}, v \in {86, 87}, ver \in {0, 1, 2},
        flag \in {0, 1, 4, 5, 2, 8, 250, 255},
        d1 \in {0, 1}, d3 \in {0, 9}, d4 \in {0, 9, 10} }

TagTypeSamples ==
    {Audio, Video, ScriptData} \cup { Reserved(n) : n \in {0, 7, 8, 9, 10, 18, 255} }

DataSizeSamples == {0, 1, 255, 256, 65535, 65536, 16777214, MAX_DATA_SIZE, 16777216}

TimestampSamples ==
    {0, 1, -1, 16777215, 16777216, -16777216, 305419896, -305419896,
     2147483647, I32Min}

TagHeaderSamples ==
    [tag_type : TagTypeSamples, data_size : DataSizeSamples,
     timestamp : TimestampSamples]

TagHeaderByteSamples ==
    { <<tt, s1, 0, s3, t1, 2, t3, t0, 0, sid, 0>> :
        tt \in {8, 9, 18, 0, 255}, s1 \in {0, 255}, s3 \in {0, 1, 255},
        t1 \in {0, 255}, t3 \in {0, 128}, t0 \in {0, 1, 127, 128, 255},
        sid \in {0, 7} }

HeaderDecode ==
    /\ codec.fn = "idle"
    /\ \E b \in HeaderByteSamples :
          codec' = [fn |-> "Header::try_from", arg |-> b, ret |-> HeaderTryFrom(b)]
    /\ UNCHANGED <<seekVars, writerVars, readerVars>>

HeaderEncode ==
    /\ codec.fn = "idle"
    /\ \E h \in HeaderSamples :
          codec' = [fn |-> "Header::into", arg |-> h, ret |-> HeaderInto(h)]
    /\ UNCHANGED <<seekVars, writerVars, readerVars>>

TagHeaderDecode ==
    /\ codec.fn = "idle"
    /\ \E b \in TagHeaderByteSamples :
          codec' = [fn |-> "TagHeader::from", arg |-> b, ret |-> TagHeaderFrom(b)]
    /\ UNCHANGED <<seekVars, writerVars, readerVars>>

TagHeaderEncode ==
    /\ codec.fn = "idle"
    /\ \E h \in TagHeaderSamples :
          codec' = [fn |-> "TagHeader::into", arg |-> h, ret |-> TagHeaderInto(h)]
    /\ UNCHANGED <<seekVars, writerVars, readerVars>>

AudioDataHeaderDecode ==
    /\ codec.fn = "idle"
    /\ \E b \in Byte :
          codec' = [fn |-> "AudioDataHeader::try_from", arg |-> b,
                    ret |-> AudioDataHeaderTryFrom(b)]
    /\ UNCHANGED <<seekVars, writerVars, readerVars>>

VideoDataHeaderDecode ==
    /\ codec.fn = "idle"
    /\ \E b \in Byte :
          codec' = [fn |-> "VideoDataHeader::try_from", arg |-> b,
                    ret |-> VideoDataHeaderTryFrom(b)]
    /\ UNCHANGED <<seekVars, writerVars, readerVars>>

AudioDataHeaderEncode ==
    /\ codec.fn = "idle"
    /\ \E h \in [sound_format : SoundFormatValues, sound_rate : SoundRateValues,
                  sound_size : SoundSizeValues, sound_type : SoundTypeValues] :
          codec' = [fn |-> "AudioDataHeader::into", arg |-> h,
                    ret |-> AudioDataHeaderInto(h)]
    /\ UNCHANGED <<seekVars, writerVars, readerVars>>

VideoDataHeaderEncode ==
    /\ codec.fn = "idle"
    /\ \E h \in [frame_type : VideoFrameTypeValues, codec_id : VideoCodecIdValues] :
          codec' = [fn |-> "VideoDataHeader::into", arg |-> h,
                    ret |-> VideoDataHeaderInto(h)]
    /\ UNCHANGED <<seekVars, writerVars, readerVars>>

InitCodec == codec = CodecIdle /\ seekq = SeekIdle /\ WriterQuiet /\ ReaderQuiet

NextCodec ==
    \/ HeaderDecode \/ HeaderEncode \/ TagHeaderDecode \/ TagHeaderEncode
    \/ AudioDataHeaderDecode \/ VideoDataHeaderDecode
    \/ AudioDataHeaderEncode \/ VideoDataHeaderEncode

SpecCodec == InitCodec /\ [][NextCodec]_vars

(***************************************************************************)
(* Seek resolver: MetaData::seek (types.rs).  Only the keyframes field of  *)
(* MetaData takes part: an Option<BTreeMap<u32, u64>>.                     *)
(***************************************************************************)
SetMin(S) == CHOOSE x \in S : \A y \in S : x <= y

SetMax(S) == CHOOSE x \in S : \A y \in S : x >= y

\* iteration over a BTreeMap: the (key, value) pairs in ascending key order
RECURSIVE BTreeIter(_)
BTreeIter(map) ==
    IF DOMAIN map = {} THEN <<>>
    ELSE LET k == SetMin(DOMAIN map)
         IN  << <<k, map[k]>> >> \o BTreeIter([x \in DOMAIN map \ {k} |-> map[x]])

\* the seek loop stopping at the first greater timestamp without an answer
RECURSIVE SeekLoopDropsTarget(_, _, _, _)
SeekLoopDropsTarget(entries, i, timestamp, target) ==
    IF i > Len(entries) THEN target
    ELSE LET ts == entries[i][1]
             offset == entries[i][2]
         IN  IF ts < timestamp
               THEN SeekLoopDropsTarget(entries, i + 1, timestamp, Some(<<ts, offset>>))
             ELSE IF ts > timestamp THEN NoneV
             ELSE Some(<<timestamp, offset>>)

\* the for loop of MetaData::seek, from entry i on
RECURSIVE SeekLoop(_, _, _, _)
SeekLoop(entries, i, timestamp, target) ==
    IF i > Len(entries) THEN target
    ELSE LET ts == entries[i][1]
             offset == entries[i][2]
         IN  IF ts < timestamp
               THEN SeekLoop(entries, i + 1, timestamp, Some(<<ts, offset>>))
             ELSE IF ts > timestamp THEN target
             ELSE Some(<<timestamp, offset>>)

\* MetaData::seek
Seek(md, timestamp) ==
    IF md.keyframes.some
      THEN SeekLoop(BTreeIter(md.keyframes.val), 1, timestamp, NoneV)
      ELSE NoneV

MaxTs == 3

MaxOffset == 1

\* every keyframe index over the timestamps 0..MaxTs, and the absent index
KeyframeSamples ==
    {NoneV} \cup
    { Some(map) : map \in UNION { [K -> 0..MaxOffset] : K \in SUBSET (0..MaxTs) } }

SeekCall ==
    /\ seekq.fn = "idle"
    /\ \E kf \in KeyframeSamples, timestamp \in 0..(MaxTs + 1) :
          LET md == [keyframes |-> kf]
          IN  seekq' = [fn |-> "seek", md |-> md, ts |-> timestamp,
                        ret |-> Seek(md, timestamp)]
    /\ UNCHANGED <<codecVars, writerVars, readerVars>>

InitSeek == codec = CodecIdle /\ seekq = SeekIdle /\ WriterQuiet /\ ReaderQuiet

NextSeek == SeekCall

SpecSeek == InitSeek /\ [][NextSeek]_vars

(***************************************************************************)
(* Claims about the tag stream reader, checked under SpecReader.  A call   *)
(* that returned ErrIo is one whose source reported an error other than    *)
(* the interrupted operation.                                              *)
(***************************************************************************)
\* the reads of one field, which go through try_read_exact
FieldReads ==
    {"read_header", "read_pre_tag_size", "read_tag_header",
     "read_video_data_header", "read_audio_data_header", "read_data"}

\* C3: read_tag_header's outcome is decided by the number of bytes left at
\* the cursor when it starts: with 0 bytes it returns Ok(None) and leaves the
\* cursor alone, with 1 to 10 bytes it fails with the truncated-stream error,
\* with 11 or more it returns the TagHeader decoded from the next 11 bytes
\* and the cursor has advanced by exactly 11.
C3_ReadTagHeaderOutcomes ==
    (rret.fn = "read_tag_header" /\ rret.ret # ErrIo) =>
        LET remaining == Len(input) - rret.start
        IN  /\ remaining = 0 => rret.ret = OkNone /\ rret.end = rret.start
            /\ remaining \in 1..10 => rret.ret = ErrUnexpectedEof
            /\ remaining >= 11 =>
                  /\ rret.ret = Ok(TagHeaderFrom(SubSeq(input, rret.start + 1,
                                                        rret.start + TagHeaderSIZE)))
                  /\ rret.end = rret.start + TagHeaderSIZE

C3_Witness ==
    /\ rret.fn = "read_tag_header"
    /\ Len(input) - rret.start = 5
    /\ rret.ret = ErrUnexpectedEof

\* C4: a read_header, read_pre_tag_size, sub-header read or read_data that
\* starts with fewer bytes left than it needs (none included) returns an
\* error, and Ok(None) is returned only by a read_tag_header that started
\* with no byte left.
C4_EofOnlyAtTagHeader ==
    rret.fn # "idle" =>
        /\ (rret.fn # "read_tag_header" /\ Len(input) - rret.start < rret.len)
              => rret.ret.tag = "Err"
        /\ rret.ret = OkNone
              => rret.fn = "read_tag_header" /\ rret.start = Len(input)

C4_Witness ==
    /\ rret.fn = "read_pre_tag_size"
    /\ rret.start = Len(input)
    /\ rret.ret = ErrEof

\* C5: however the source interleaves interrupted reads and short reads, a
\* call holds at every moment exactly the bytes between its start and the
\* cursor, in order, and it returns what it returns on a source that hands
\* over min(len, bytes left) bytes at once: the same result, the same buffer
\* contents and the same cursor.
C5_InterruptTransparent ==
    /\ rd.fn # "idle" => rd.got = SubSeq(input, rd.start + 1, pos)
    /\ (rret.fn \in FieldReads /\ rret.ret # ErrIo) =>
          LET n == Min(rret.len, Len(input) - rret.start)
              ideal == SubSeq(input, rret.start + 1, rret.start + n)
          IN  /\ rret.got = ideal
              /\ rret.end = rret.start + n
              /\ rret.ret = Returned(rret.fn, TryReadExact(rret.len, ideal))

C5_Witness ==
    /\ rret.fn = "read_tag_header"
    /\ IsOk(rret.ret)
    /\ rret.intr = MaxInterrupts
    /\ rret.short

\* C6 as stated: read_data(declared_size) takes declared_size - 1 bytes from
\* the stream and returns them.
C6_ReadDataReadsOneLess ==
    (rret.fn = "read_data" /\ IsOk(rret.ret)) =>
        /\ rret.end - rret.start = rret.arg - 1
        /\ Len(rret.ret.val) = rret.arg - 1

\* C6, amended: read_data(len) takes exactly len bytes from the stream and
\* returns them; flv-dump leaves the sub-header byte out by passing
\* data_size - 1, so that after read_tag_header, the sub-header read and
\* read_data(data_size - 1) the cursor is 11 + data_size bytes after the start
\* of the tag, where the stream holds the following pre-tag-size marker.
C6_ReadDataReadsLen ==
    (rret.fn = "read_data" /\ IsOk(rret.ret)) =>
        /\ rret.end - rret.start = rret.arg
        /\ rret.ret.val = SubSeq(input, rret.start + 1, rret.start + rret.arg)
        /\ Returns("read_data") =>
              /\ rret.arg = tag.header.data_size - 1
              /\ pos = tag.start + TagHeaderSIZE + tag.header.data_size
              /\ Len(input) >= pos + 4 =>
                    SubSeq(input, pos + 1, pos + 4)
                      = U32ToBe(TagHeaderSIZE + tag.header.data_size)

C6_Witness ==
    /\ Returns("read_data")
    /\ rret.fn = "read_data"
    /\ IsOk(rret.ret)
    /\ rret.arg = 2
    /\ Len(input) >= pos + 4

\* the loop is over, or the program has stopped
Terminated == pc \in {"exit_ok", "exit_err", "panic", "further"} /\ rd.fn = "idle"

\* the header of the tag with number i (0 or 1) of WellFormed(k)
ExpectedTagHeader(k, i) ==
    IF i = 0
      THEN [tag_type |-> Audio, data_size |-> 1 + k, timestamp |-> 0]
      ELSE [tag_type |-> Video, data_size |-> 1, timestamp |-> 40]

\* what the loop has done on a well-formed stream of two tags, as long as
\* the source has reported no error: every read_data returns the payload of
\* the tag whose turn it is, and once the loop is over it has yielded both
\* tags and the last call, a further one included, is a read_tag_header that
\* returned Ok(None) with the cursor left at the end of the stream
LoopYieldsTags ==
    \A k \in 0..MaxPayload :
      (input = WellFormed(k) /\ rret.fn # "idle" /\ rret.ret # ErrIo) =>
        /\ Returns("read_data") =>
              /\ index \in {0, 1}
              /\ tag.header = ExpectedTagHeader(k, index)
              /\ rret.ret = Ok(IF index = 0 THEN PayloadOf(k) ELSE <<>>)
        /\ Terminated =>
              /\ pc \in {"exit_ok", "further"}
              /\ index = 2
              /\ rret.fn = "read_tag_header"
              /\ rret.ret = OkNone
              /\ rret.start = Len(input) /\ rret.end = Len(input)
              /\ pos = Len(input)

\* C19: on a stream made of a valid header, the zero marker and two
\* audio/video tags each followed by its marker, the reading loop
\* terminates; unless the source reported an error it has then yielded
\* exactly the two tags in stream order and ended on read_tag_header's
\* Ok(None) with the cursor at the end of the stream, and a further
\* read_tag_header returns Ok(None) again without moving the cursor.
C19_LoopTerminates ==
    /\ []LoopYieldsTags
    /\ (input \in WellFormedStreams) ~> Terminated

C19_Witness ==
    /\ input \in WellFormedStreams
    /\ pc = "further"
    /\ rd.fn = "idle"
    /\ rret.ret = OkNone
    /\ index = 2

(***************************************************************************)
(* Claims about the tag writer, checked under SpecWriter.                  *)
(***************************************************************************)

\* the sub-header byte of a write_audio_tag or write_video_tag call
SubHeaderByteOf(call) ==
    IF call.fn = "write_video_tag" THEN VideoDataHeaderInto(call.args.header)
    ELSE AudioDataHeaderInto(call.args.header)

TagWrites == {"write_audio_tag", "write_video_tag"}

\* C1: after write_audio_tag or write_video_tag has accepted a payload, the
\* output grew by an 11-byte tag header, the sub-header byte and the payload,
\* in that order with nothing in between, and the data_size field of that
\* tag header is 1 plus the payload length.
C1_WriterDataSize ==
    (wret.fn \in TagWrites /\ IsOk(wret.ret)) =>
        LET n == Len(wret.before)
            tag_header == SubSeq(out, n + 1, n + TagHeaderSIZE)
        IN  /\ Len(out) >= n + TagHeaderSIZE + 1
            /\ out = wret.before \o tag_header
                       \o <<Run(SubHeaderByteOf(wret), 1)>> \o wret.args.data
            /\ TagHeaderFrom(SliceBytes(tag_header)).data_size
                 = 1 + SliceLen(wret.args.data)

\* C2: a write_audio_tag or write_video_tag whose target reports no error
\* succeeds when the sub-header byte plus the payload are 0x00FFFFFF bytes,
\* and fails with the data-size error, the output left as it was, when they
\* are 0x01000000 bytes.
C2_WriterSizeBound ==
    (wret.fn \in TagWrites /\ wret.ret # Err("Io", <<>>)) =>
        LET total == 1 + SliceLen(wret.args.data)
        IN  /\ total = MAX_DATA_SIZE => IsOk(wret.ret)
            /\ total = MAX_DATA_SIZE + 1 =>
                  /\ ~IsOk(wret.ret)
                  /\ wret.ret.kind = "DataSize"
                  /\ out = wret.before

(***************************************************************************)
(* Claims about writing and reading back, checked under SpecPipe.          *)
(***************************************************************************)

\* the stream holds what one successful write_header wrote
HeaderOnly == wret.fn = "write_header" /\ IsOk(wret.ret) /\ wret.before = <<>>

\* C16 as stated: write_header emits the 9 encoded header bytes and 4 zero
\* bytes and returns 13; read back, read_header yields the header written
\* whenever its version is 1, and read_pre_tag_size yields 0.
C16_HeaderReadBackAnyOffset ==
    /\ (wret.fn = "write_header" /\ IsOk(wret.ret)) =>
          /\ wret.ret = Ok(13)
          /\ out = wret.before \o Slice(HeaderInto(wret.args.header) \o <<0, 0, 0, 0>>)
    /\ (HeaderOnly /\ wret.args.header.version = 1) =>
          /\ Returns("read_header") => rret.ret = Ok(wret.args.header)
          /\ Returns("read_pre_tag_size") => rret.ret = Ok(0)

\* C16, amended: write_header emits exactly 13 bytes, the 9 encoded header
\* bytes and 4 zero bytes, and returns 13; read back, read_header yields the
\* header written with data_offset 9 whenever its version is 1, which is the
\* header written when its data_offset is 9, and read_pre_tag_size yields 0.
C16_HeaderReadBack ==
    /\ (wret.fn = "write_header" /\ IsOk(wret.ret)) =>
          /\ wret.ret = Ok(13)
          /\ SliceLen(out) = SliceLen(wret.before) + 13
          /\ out = wret.before \o Slice(HeaderInto(wret.args.header) \o <<0, 0, 0, 0>>)
    /\ (HeaderOnly /\ wret.args.header.version = 1) =>
          /\ Returns("read_header") =>
                /\ rret.ret = Ok([wret.args.header EXCEPT !.data_offset = 9])
                /\ wret.args.header.data_offset = 9 => rret.ret = Ok(wret.args.header)
          /\ Returns("read_pre_tag_size") => rret.ret = Ok(0) /\ pos = 13

C16_Witness ==
    /\ HeaderOnly
    /\ wret.args.header = [version |-> 1, audio_flag |-> TRUE, video_flag |-> TRUE,
                           data_offset |-> 9]
    /\ Returns("read_pre_tag_size")
    /\ rret.ret = Ok(0)

\* the stream holds what write_header (version 1), one tag write and the
\* marker after it wrote
OneTagStream ==
    /\ wret.fn = "pre_tag_size"
    /\ \E h \in WriterHeaderSamples :
          /\ h.version = 1
          /\ wret.tag_write.before = Slice(HeaderInto(h) \o <<0, 0, 0, 0>>)

\* C18: when the stream written by write_header, one write_audio_tag or
\* write_video_tag and the marker holding that call's return value is read
\* back by the reading loop, read_tag_header yields the tag type and the
\* timestamp written, the sub-header read the sub-header written,
\* read_data(data_size - 1) the payload written, the next read_pre_tag_size
\* 11 + 1 + the payload length, and the loop ends with read_tag_header's
\* no-more-tags outcome after that one tag.
C18_FramingRoundTrip ==
    OneTagStream =>
        LET call == wret.tag_write
        IN  /\ (Returns("read_tag_header") /\ index = 0) =>
                  /\ IsOk(rret.ret)
                  /\ rret.ret.val.tag_type =
                        (IF call.fn = "write_audio_tag" THEN Audio ELSE Video)
                  /\ rret.ret.val.timestamp = call.args.timestamp
            /\ (Returns("read_audio_data_header") \/ Returns("read_video_data_header"))
                  => rret.ret = Ok(call.args.header)
            /\ Returns("read_data") => rret.ret = Ok(SliceBytes(call.args.data))
            /\ (Returns("read_pre_tag_size") /\ index = 1)
                  => rret.ret = Ok(11 + 1 + SliceLen(call.args.data))
            /\ pc \in {"exit_ok", "exit_err", "panic"} =>
                  /\ pc = "exit_ok"
                  /\ index = 1
                  /\ rret.fn = "read_tag_header"
                  /\ rret.ret = OkNone

(***************************************************************************)
(* Claims about the metadata decoder, checked under SpecMeta.              *)
(***************************************************************************)

\* payloads whose entries are doubles, booleans and strings, the count field
\* holding their number
PlainEntrySeqs == SeqsUpTo(1..4, MaxEntries) \cup { <<1, 2, 3>>, <<1, 4, 2, 3>> }

\* C11: read_metadata on a well-formed payload of double, boolean and string
\* entries (duration, stereo, encoder, and a key outside the known set)
\* consumes the whole payload and returns a MetaData in which each field
\* named by an entry holds that entry's value and every other field is at
\* its default: 0.0, false, the empty string, keyframes absent.  An entry
\* with an unknown key changes no field.
C11_PopulatesOnlyPresent ==
    rret.fn = "read_metadata" =>
        \A es \in PlainEntrySeqs :
            input = MetaPayload(Len(es), es) =>
                /\ IsOk(rret.ret)
                /\ rret.end = Len(input)
                /\ DOMAIN rret.ret.val = DOMAIN MetaDataDefault
                /\ \A f \in DOMAIN rret.ret.val :
                      rret.ret.val[f] =
                        IF \E i \in 1..Len(es) : EntryOf(es[i]).field = f
                          THEN EntryOf(es[CHOOSE i \in 1..Len(es) :
                                            EntryOf(es[i]).field = f]).value
                        ELSE IF f = "keyframes" THEN NoneV
                        ELSE IF f \in { kf[2] : kf \in BoolKeys } THEN FALSE
                        ELSE IF f \in { kf[2] : kf \in StringKeys } THEN <<>>
                        ELSE <<0, 0, 0, 0, 0, 0, 0, 0>>

C11_Witness ==
    /\ rret.fn = "read_metadata"
    /\ input = MetaPayload(4, <<1, 4, 2, 3>>)
    /\ IsOk(rret.ret)
    /\ rret.ret.val.duration = F64OnePointFive
    /\ rret.ret.val.stereo
    /\ rret.ret.val.encoder = <<76, 118>>

\* the entry payloads with the count and the entries they were built from
MetaCases ==
    { [payload |-> MetaPayload(count, es), count |-> count, es |-> es] :
        count \in 0..(MaxEntries + 1), es \in SeqsUpTo(AllEntries, MaxEntries) }

\* the type marker of an entry sample: the byte after its key
MarkerOf(e) == e.bytes[3 + U16FromBe(e.bytes[1], e.bytes[2])]

\* C12: when read_metadata meets, among the entries the count field makes it
\* read, an entry whose marker is neither 0, 1, 2 nor 3 with the key
\* "keyframes" (here: marker 5, and marker 3 with the key "o"), it returns
\* the unsupported-type failure naming that marker, with the cursor just
\* after the marker: no MetaData is returned and nothing after the entry is
\* read.
C12_UnknownMarkerAborts ==
    rret.fn = "read_metadata" =>
        \A case \in MetaCases :
            input = case.payload =>
                \A i \in 1..Min(case.count, Len(case.es)) :
                    ( /\ case.es[i] \notin WellFormedEntries
                      /\ \A j \in 1..(i - 1) : case.es[j] \in WellFormedEntries )
                    => /\ rret.ret = Err("Unimplemented",
                                         <<MarkerOf(EntryOf(case.es[i]))>>)
                       /\ rret.end =
                            Len(MetaPayload(case.count, SubSeq(case.es, 1, i - 1))) - 3
                              + Len(EntryOf(case.es[i]).bytes)

C12_Witness ==
    /\ rret.fn = "read_metadata"
    /\ input = MetaPayload(2, <<1, 7>>)
    /\ rret.ret = Err("Unimplemented", <<3>>)

\* the keyframes payloads with the arrays they were built from
KeyframesCases ==
    { [payload |-> KeyframesPayload(ps, ts), ps |-> ps, ts |-> ts] :
        ps \in SeqsUpTo(1..4, MaxItems), ts \in SeqsUpTo(1..4, MaxItems) }

\* C17: read_metadata on a keyframes object with the arrays filepositions
\* (length p) and times (length t) returns an index whose timestamps are
\* the times[i] with i < min(p, t), each with the offset filepositions[i] of
\* the last such i; iterating over it gives the timestamps in strictly
\* ascending order; and when those times are pairwise distinct the index is
\* exactly the pairs (times[i], filepositions[i]).
C17_KeyframeIndex ==
    rret.fn = "read_metadata" =>
        \A case \in KeyframesCases :
            input = case.payload =>
                LET ps == case.ps
                    ts == case.ts
                    n == Min(Len(ps), Len(ts))
                    kf == rret.ret.val.keyframes
                    it == BTreeIter(kf.val)
                IN  /\ IsOk(rret.ret)
                    /\ kf.some
                    /\ DOMAIN kf.val = { MillisOf(ts[i]) : i \in 1..n }
                    /\ \A i \in 1..n :
                          (\A j \in (i + 1)..n : MillisOf(ts[j]) # MillisOf(ts[i]))
                              => kf.val[MillisOf(ts[i])] = OffsetOf(ps[i])
                    /\ \A a, b \in 1..Len(it) : a < b => it[a][1] < it[b][1]
                    /\ { it[a] : a \in 1..Len(it) }
                          = { <<k, kf.val[k]>> : k \in DOMAIN kf.val }
                    /\ (\A i, j \in 1..n : i # j => ts[i] # ts[j])
                          => { it[a] : a \in 1..Len(it) }
                               = { <<MillisOf(ts[i]), OffsetOf(ps[i])>> : i \in 1..n }

C17_Witness ==
    /\ rret.fn = "read_metadata"
    /\ input = KeyframesPayload(<<2, 4>>, <<3, 3>>)
    /\ IsOk(rret.ret)
    /\ rret.ret.val.keyframes = Some(2000 :> 500)

\* C7: read_metadata on a well-formed payload returns the MetaData its
\* entries describe whatever number the entry count field holds: smaller
\* than, equal to or larger than the number of entries present.
C7_CountIsInformational ==
    rret.fn = "read_metadata" =>
        \A es \in SeqsUpTo(WellFormedEntries, MaxEntries), count \in 0..(MaxEntries + 1) :
            input = MetaPayload(count, es)
                => rret.ret = Ok(Described(es, MetaDataDefault))


(***************************************************************************)
(* Claims about the struct codec, checked under SpecCodec.                 *)
(***************************************************************************)

\* C9: Header round trip.  Encoding a Header with version = 1 and
\* data_offset = 9 and decoding the 9 bytes gives back the same Header, and
\* every 9-byte input that decodes successfully is reproduced by encoding the
\* decoded Header.
C9_HeaderRoundTrip ==
    /\ (codec.fn = "Header::into" /\ codec.arg.version = 1
            /\ codec.arg.data_offset = 9)
         => HeaderTryFrom(codec.ret) = Ok(codec.arg)
    /\ (codec.fn = "Header::try_from" /\ IsOk(codec.ret))
         => HeaderInto(codec.ret.val) = codec.arg

C9_Witness ==
    /\ codec.fn = "Header::try_from"
    /\ IsOk(codec.ret)
    /\ codec.ret.val.audio_flag
    /\ ~codec.ret.val.video_flag

\* C10: TagHeader round trip.  For a tag type among Audio, Video, ScriptData
\* or Reserved(n) with n outside {8, 9, 18}, a data_size of at most 0x00FFFFFF
\* and any 32-bit signed timestamp, decoding the 11 encoded bytes gives back
\* the TagHeader; bytes 4..6 hold the low 24 bits of the timestamp, byte 7
\* its high 8 bits, the decoded timestamp is high << 24 | low read as a signed
\* 32-bit value, and the three stream-id bytes are 0.
C10_TagHeaderRoundTrip ==
    (/\ codec.fn = "TagHeader::into"
     /\ codec.arg.data_size <= MAX_DATA_SIZE
     /\ (codec.arg.tag_type.kind = "Reserved" => codec.arg.tag_type.n \notin {8, 9, 18}))
    => LET b == codec.ret
           low == (b[5] * 256 + b[6]) * 256 + b[7]
           high == b[8]
       IN  /\ TagHeaderFrom(b) = codec.arg
           /\ low = codec.arg.timestamp % 16777216
           /\ high = (codec.arg.timestamp \div 16777216) % 256
           /\ TagHeaderFrom(b).timestamp
                 = (IF high >= 128 THEN high - 256 ELSE high) * 16777216 + low
           /\ <<b[9], b[10], b[11]>> = <<0, 0, 0>>

C10_Witness ==
    /\ codec.fn = "TagHeader::into"
    /\ codec.arg.tag_type = Reserved(255)
    /\ codec.arg.data_size = MAX_DATA_SIZE
    /\ codec.arg.timestamp = -305419896

\* C20: what encoding produces, decoding accepts.  The 9 bytes encoded from
\* any Header value (any version byte, any data_offset) decode successfully
\* to a Header, and the 11 bytes encoded from any TagHeader value decode to a
\* TagHeader with the same data_size.
C20_EncodedDecodes ==
    /\ codec.fn = "Header::into" => IsOk(HeaderTryFrom(codec.ret))
    /\ codec.fn = "TagHeader::into"
         => TagHeaderFrom(codec.ret).data_size = codec.arg.data_size

\* C14: Header::try_from on 9 bytes whose first three are not 'F', 'L', 'V'
\* returns the signature error carrying those three bytes, whatever the
\* other six bytes are.
C14_SignatureFirst ==
    (codec.fn = "Header::try_from"
        /\ <<codec.arg[1], codec.arg[2], codec.arg[3]>> # <<70, 76, 86>>)
    => codec.ret = Err("HeaderSignature", <<codec.arg[1], codec.arg[2], codec.arg[3]>>)

C14_Witness ==
    /\ codec.fn = "Header::try_from"
    /\ codec.arg = <<70, 76, 87, 2, 250, 1, 0, 0, 10>>
    /\ codec.ret = Err("HeaderSignature", <<70, 76, 87>>)

\* C15: Header::try_from returns the error of the first check that fails, in
\* the order signature, version (1), reserved flag bits (byte 4 masked with
\* 0xFA is 0), data offset (9), and a Header when none fails; so it returns
\* the data-offset error, carrying the offset, exactly when signature,
\* version and flags are valid and the big-endian offset field is not 9.
C15_FirstFailingCheck ==
    codec.fn = "Header::try_from" =>
        LET b == codec.arg
            sigOk == <<b[1], b[2], b[3]>> = <<70, 76, 86>>
            verOk == b[4] = 1
            reserved == b[5] - (b[5] % 2) - 4 * ((b[5] \div 4) % 2)
            offset == ((b[6] * 256 + b[7]) * 256 + b[8]) * 256 + b[9]
        IN  /\ codec.ret.tag = "Err" =>
                  codec.ret.kind =
                    IF ~sigOk THEN "HeaderSignature"
                    ELSE IF ~verOk THEN "HeaderVersion"
                    ELSE IF reserved # 0 THEN "HeaderTypeFlagsReserved"
                    ELSE "HeaderDataOffset"
            /\ IsOk(codec.ret) <=> (sigOk /\ verOk /\ reserved = 0 /\ offset = 9)
            /\ (codec.ret.tag = "Err" /\ codec.ret.kind = "HeaderDataOffset")
                  <=> (sigOk /\ verOk /\ reserved = 0 /\ offset # 9)
            /\ (sigOk /\ verOk /\ reserved = 0 /\ offset # 9)
                  => codec.ret = Err("HeaderDataOffset", <<offset>>)

C15_Witness ==
    /\ codec.fn = "Header::try_from"
    /\ codec.arg = <<70, 76, 86, 1, 5, 0, 0, 0, 10>>
    /\ codec.ret = Err("HeaderDataOffset", <<10>>)

\* C13: AudioDataHeader::try_from fails exactly for the bytes whose high
\* nibble is 12 or 13, with the sound-format error carrying that nibble;
\* VideoDataHeader::try_from fails exactly for the bytes whose high nibble is
\* outside 1..5, with the frame-type error carrying the high nibble, or else
\* whose low nibble is outside 1..7, with the codec-id error carrying the low
\* nibble; every other byte decodes to the header of its sub-fields.
C13_SubHeaderRejects ==
    /\ codec.fn = "AudioDataHeader::try_from" =>
          LET hi == codec.arg \div 16
          IN  IF hi \in {12, 13} THEN codec.ret = Err("SoundFormat", <<hi>>)
              ELSE codec.ret = Ok([sound_format |-> hi,
                                   sound_rate |-> (codec.arg \div 4) % 4,
                                   sound_size |-> (codec.arg \div 2) % 2,
                                   sound_type |-> codec.arg % 2])
    /\ codec.fn = "VideoDataHeader::try_from" =>
          LET hi == codec.arg \div 16
              lo == codec.arg % 16
          IN  IF hi \notin 1..5 THEN codec.ret = Err("VideoFrameType", <<hi>>)
              ELSE IF lo \notin 1..7 THEN codec.ret = Err("VideoCodecId", <<lo>>)
              ELSE codec.ret = Ok([frame_type |-> hi, codec_id |-> lo])

C13_Witness ==
    \/ codec.fn = "AudioDataHeader::try_from" /\ codec.arg = 207
          /\ codec.ret = Err("SoundFormat", <<12>>)
    \/ codec.fn = "VideoDataHeader::try_from" /\ codec.arg = 24
          /\ codec.ret = Err("VideoCodecId", <<8>>)

\* C21: sub-header byte round trip.  Decoding the byte encoded from any
\* AudioDataHeader or VideoDataHeader gives the header back, and encoding the
\* header decoded from any byte that decodes gives the byte back; the audio
\* byte holds sound_format in bits 7-4, sound_rate in bits 3-2, sound_size in
\* bit 1 and sound_type in bit 0, the video byte frame_type in bits 7-4 and
\* codec_id in bits 3-0.
C21_SubHeaderRoundTrip ==
    /\ codec.fn = "AudioDataHeader::into" =>
          /\ AudioDataHeaderTryFrom(codec.ret) = Ok(codec.arg)
          /\ codec.ret = codec.arg.sound_format * 16 + codec.arg.sound_rate * 4
                            + codec.arg.sound_size * 2 + codec.arg.sound_type
    /\ (codec.fn = "AudioDataHeader::try_from" /\ IsOk(codec.ret)) =>
          /\ AudioDataHeaderInto(codec.ret.val) = codec.arg
          /\ codec.ret.val.sound_format = codec.arg \div 16
          /\ codec.ret.val.sound_rate = (codec.arg \div 4) % 4
          /\ codec.ret.val.sound_size = (codec.arg \div 2) % 2
          /\ codec.ret.val.sound_type = codec.arg % 2
    /\ codec.fn = "VideoDataHeader::into" =>
          /\ VideoDataHeaderTryFrom(codec.ret) = Ok(codec.arg)
          /\ codec.ret = codec.arg.frame_type * 16 + codec.arg.codec_id
    /\ (codec.fn = "VideoDataHeader::try_from" /\ IsOk(codec.ret)) =>
          /\ VideoDataHeaderInto(codec.ret.val) = codec.arg
          /\ codec.ret.val.frame_type = codec.arg \div 16
          /\ codec.ret.val.codec_id = codec.arg % 16

C21_Witness ==
    /\ codec.fn = "AudioDataHeader::into"
    /\ codec.arg = [sound_format |-> 10, sound_rate |-> 3, sound_size |-> 1,
                    sound_type |-> 0]
    /\ codec.ret = 174

(***************************************************************************)
(* Claims about the seek resolver, checked under SpecSeek.                 *)
(***************************************************************************)

\* C8: MetaData::seek is a predecessor query.  seek(T) returns nothing exactly
\* when the index is absent, empty or has no timestamp <= T; otherwise it
\* returns the entry (timestamp, offset) of the index with the greatest
\* timestamp <= T, which is the entry at T itself on an exact match.
C8_SeekPredecessor ==
    seekq.fn = "seek" =>
        LET kf == seekq.md.keyframes
            T == seekq.ts
            r == seekq.ret
            cands == IF kf.some THEN {k \in DOMAIN kf.val : k <= T} ELSE {}
        IN  /\ r.some <=> cands # {}
            /\ r.some =>
                  /\ r.val[1] = SetMax(cands)
                  /\ r.val[2] = kf.val[r.val[1]]
                  /\ (T \in cands => r.val[1] = T)

C8_Witness ==
    /\ seekq.fn = "seek"
    /\ seekq.md.keyframes.some
    /\ DOMAIN seekq.md.keyframes.val = {0, 1, 3}
    /\ seekq.ts = 2
    /\ seekq.ret = Some(<<1, seekq.md.keyframes.val[1]>>)

====
